---------------------------- MODULE Spec2Model ----------------------------
(***************************************************************************)
(* Chrome Web Store Lister: the sitemap crawl of src/src/core.py and the   *)
(* URL validation, item extraction and sanitization of src/src/utils.py.   *)
(*                                                                         *)
(* Text is a sequence of one-character strings, so that the regular        *)
(* expressions, prefix tests, trimming and slicing of the source are       *)
(* computed character by character.                                        *)
(***************************************************************************)
EXTENDS Integers, Sequences, FiniteSets, TLC

(***************************************************************************)
(* Text primitives (Python str operations used by the source).             *)
(***************************************************************************)

\* c * n
Rep(c, n) == [i \in 1..n |-> c]

\* str.startswith
StartsWith(s, p) == Len(p) <= Len(s) /\ SubSeq(s, 1, Len(p)) = p

\* str.endswith
EndsWith(s, p) == Len(p) <= Len(s) /\ SubSeq(s, Len(s) - Len(p) + 1, Len(s)) = p

\* sub in s
Contains(s, sub) ==
    \E i \in 1..(Len(s) - Len(sub) + 1) : SubSeq(s, i, i + Len(sub) - 1) = sub

\* the characters str.strip() removes (those that occur in the inputs)
Whitespace == {" ", "\t", "\n"}

\* least element of a non-empty set of integers
Min(S) == CHOOSE i \in S : \A k \in S : i <= k

\* greatest element of a non-empty set of integers
Max(S) == CHOOSE i \in S : \A k \in S : i >= k

\* str.strip()
Strip(s) ==
    LET keep == {i \in 1..Len(s) : s[i] \notin Whitespace}
    IN  IF keep = {} THEN <<>> ELSE SubSeq(s, Min(keep), Max(keep))

\* s[:n]
Take(s, n) == SubSeq(s, 1, IF n < Len(s) THEN n ELSE Len(s))

UpperLetters ==
    <<"A","B","C","D","E","F","G","H","I","J","K","L","M",
      "N","O","P","Q","R","S","T","U","V","W","X","Y","Z">>

LowerLetters ==
    <<"a","b","c","d","e","f","g","h","i","j","k","l","m",
      "n","o","p","q","r","s","t","u","v","w","x","y","z">>

Digits == {"0","1","2","3","4","5","6","7","8","9"}

LowerChar(c) ==
    IF \E i \in 1..26 : UpperLetters[i] = c
    THEN LowerLetters[CHOOSE i \in 1..26 : UpperLetters[i] = c]
    ELSE c

\* str.lower()
Lower(s) == [i \in 1..Len(s) |-> LowerChar(s[i])]

\* the character class [a-zA-Z0-9]
Alnum ==
    {UpperLetters[i] : i \in 1..26} \cup {LowerLetters[i] : i \in 1..26} \cup Digits

\* length of the longest run of characters outside `stop` that starts at s[from]
RunLen(s, from, stop) ==
    LET ends == {k \in from..Len(s) : s[k] \in stop}
    IN  IF from > Len(s) THEN 0
        ELSE IF ends = {} THEN Len(s) - from + 1
        ELSE Min(ends) - from

(***************************************************************************)
(* Literals of the source.                                                 *)
(***************************************************************************)

http == <<"h","t","t","p">>

https == <<"h","t","t","p","s">>

CatalogHost ==
    <<"c","h","r","o","m","e","w","e","b","s","t","o","r","e",".",
      "g","o","o","g","l","e",".","c","o","m">>

DetailLit == <<"/","d","e","t","a","i","l","/">>

Brand == <<"C","h","r","o","m","e"," ","W","e","b"," ","S","t","o","r","e">>

chrome_store_suffix == <<" ","-"," ">> \o Brand

CrxHost ==
    <<"c","l","i","e","n","t","s","2",".","g","o","o","g","l","e",".","c","o","m">>

CrxPath ==
    <<"/","s","e","r","v","i","c","e","/","u","p","d","a","t","e","2","/","c","r","x">>

CrxQueryHead ==
    <<"r","e","s","p","o","n","s","e","=","r","e","d","i","r","e","c","t","&",
      "p","r","o","d","v","e","r","s","i","o","n","=","1","3","8","&",
      "a","c","c","e","p","t","f","o","r","m","a","t","=","c","r","x","2",",",
      "c","r","x","3","&","x","=","i","d","%","3","D">>

CrxQueryTail == <<"%","2","6","u","c">>

ShardMarker == <<"s","h","a","r","d","=">>

BlockedHosts ==
    { <<"l","o","c","a","l","h","o","s","t">>,
      <<"1","2","7",".","0",".","0",".","1">>,
      <<":",":","1">> }

Prefix192 == <<"1","9","2",".","1","6","8",".">>

Prefix10 == <<"1","0",".">>

Prefix172 == <<"1","7","2",".">>

\* len(item_id) != 32
ID_LENGTH == 32

\* len(item_name) > 200 ... item_name[:200]
NAME_LIMIT == 200

(***************************************************************************)
(* A URL is given by what urllib.parse.urlparse and validators.url, both   *)
(* library code, report about it: scheme, hostname, path, query and the    *)
(* verdict wf of validators.url.  The empty string is EmptyUrl.            *)
(***************************************************************************)

EmptyUrl ==
    [wf |-> FALSE, scheme |-> <<>>, hostname |-> <<>>, path |-> <<>>, query |-> <<>>]

\* the URL as the string the regular expression of extract_item_data scans
UrlText(url) ==
    IF url = EmptyUrl THEN <<>>
    ELSE url.scheme \o <<":","/","/">> \o url.hostname \o url.path
         \o (IF url.query = <<>> THEN <<>> ELSE <<"?">> \o url.query)

\* mutant: hosts starting with 172. are not blocked
validate_url_allows_172(url) ==
    IF UrlText(url) = <<>> THEN FALSE
    ELSE IF ~url.wf THEN FALSE
    ELSE IF url.scheme \notin {http, https} THEN FALSE
    ELSE IF /\ url.hostname # <<>>
            /\ LET hostname == Lower(url.hostname)
               IN  \/ hostname \in BlockedHosts
                   \/ StartsWith(hostname, Prefix192)
                   \/ StartsWith(hostname, Prefix10)
    THEN FALSE
    ELSE TRUE

validate_url(url) ==
    IF UrlText(url) = <<>> THEN FALSE
    ELSE IF ~url.wf THEN FALSE
    ELSE IF url.scheme \notin {http, https} THEN FALSE
    ELSE IF /\ url.hostname # <<>>
            /\ LET hostname == Lower(url.hostname)
               IN  \/ hostname \in BlockedHosts
                   \/ StartsWith(hostname, Prefix192)
                   \/ StartsWith(hostname, Prefix10)
                   \/ StartsWith(hostname, Prefix172)
         THEN FALSE
    ELSE TRUE

is_valid_chrome_store_url(url) ==
    IF ~validate_url(url) THEN FALSE
    ELSE url.hostname = CatalogHost /\ Contains(url.path, DetailLit)

(***************************************************************************)
(* re.search(r"/detail/[^/]+/([^/?]+)", url): group 1 of the leftmost      *)
(* match, or <<>> when there is none (a match's group is never empty).     *)
(***************************************************************************)

\* mutant: the group is the slug segment, not the segment after it
DetailIdAtSlug(s, i) ==
    IF i + 7 <= Len(s) /\ SubSeq(s, i, i + 7) = DetailLit
    THEN LET n1 == RunLen(s, i + 8, {"/", "?"})
         IN  IF n1 >= 1 THEN SubSeq(s, i + 8, i + 7 + n1) ELSE <<>>
    ELSE <<>>

DetailIdAt(s, i) ==
    IF i + 7 <= Len(s) /\ SubSeq(s, i, i + 7) = DetailLit
    THEN LET n1 == RunLen(s, i + 8, {"/"})
             j  == i + 8 + n1
             n2 == RunLen(s, j + 1, {"/", "?"})
         IN  IF n1 >= 1 /\ j <= Len(s) /\ n2 >= 1
             THEN SubSeq(s, j + 1, j + n2)
             ELSE <<>>
    ELSE <<>>

DetailIdSearch(s) ==
    LET hits == {i \in 1..Len(s) : DetailIdAt(s, i) # <<>>}
    IN  IF hits = {} THEN <<>> ELSE DetailIdAt(s, Min(hits))

(***************************************************************************)
(* re.sub(r"<[^>]+>", "", s)                                               *)
(***************************************************************************)

\* a match of <[^>]+> starts at s[i]
TagAt(s, i) ==
    /\ s[i] = "<"
    /\ RunLen(s, i + 1, {">"}) >= 1
    /\ i + 1 + RunLen(s, i + 1, {">"}) <= Len(s)

\* the leftmost match is removed, then the rest of the string is scanned
RECURSIVE StripTags(_)
StripTags(s) ==
    LET tags == {i \in 1..Len(s) : TagAt(s, i)}
    IN  IF tags = {} THEN s
        ELSE LET i == Min(tags)
                 n == RunLen(s, i + 1, {">"})
             IN  SubSeq(s, 1, i - 1) \o StripTags(SubSeq(s, i + n + 2, Len(s)))

(***************************************************************************)
(* urllib.parse.unquote: %XX becomes the character with that code.  Codes  *)
(* outside printable ASCII decode to the replacement character (written    *)
(* "\\uFFFD"; the grave accent, code 96, is written "\\x60").                *)
(***************************************************************************)

PrintableAscii ==
    <<" ","!","\"","#","$","%","&","'","(",")","*","+",",","-",".","/",
      "0","1","2","3","4","5","6","7","8","9",":",";","<","=",">","?","@",
      "A","B","C","D","E","F","G","H","I","J","K","L","M",
      "N","O","P","Q","R","S","T","U","V","W","X","Y","Z",
      "[","\\","]","^","_","\\x60",
      "a","b","c","d","e","f","g","h","i","j","k","l","m",
      "n","o","p","q","r","s","t","u","v","w","x","y","z",
      "{","|","}","~">>

HexDigits == Digits \cup {"a","b","c","d","e","f","A","B","C","D","E","F"}

HexSeq == <<"0","1","2","3","4","5","6","7","8","9","a","b","c","d","e","f">>

HexVal(c) == (CHOOSE i \in 1..16 : HexSeq[i] = LowerChar(c)) - 1

PctDecode(h1, h2) ==
    LET code == 16 * HexVal(h1) + HexVal(h2)
    IN  IF code >= 32 /\ code <= 126 THEN PrintableAscii[code - 31] ELSE "\\uFFFD"

\* an escape %XX starts at s[i]
EscapeAt(s, i) ==
    s[i] = "%" /\ i + 2 <= Len(s) /\ s[i + 1] \in HexDigits /\ s[i + 2] \in HexDigits

\* the leftmost escape is decoded, then the rest of the string is scanned
RECURSIVE unquote(_)
unquote(s) ==
    LET escapes == {i \in 1..Len(s) : EscapeAt(s, i)}
    IN  IF escapes = {} THEN s
        ELSE LET i == Min(escapes)
             IN  SubSeq(s, 1, i - 1) \o <<PctDecode(s[i + 1], s[i + 2])>>
                 \o unquote(SubSeq(s, i + 3, Len(s)))

(***************************************************************************)
(* get_chrome_store_item_name.  `response` is what the page request gave:  *)
(* kind "error" (the request or the parse raised), "notitle" (no title     *)
(* element, or an empty one) or "title" with the title's text.  The result *)
(* is an optional string: ok = FALSE stands for None.                      *)
(***************************************************************************)

NoName == [ok |-> FALSE, val |-> <<>>]

SomeName(s) == [ok |-> TRUE, val |-> s]

get_chrome_store_item_name(response) ==
    IF response.kind # "title" \/ response.title = <<>> THEN NoName
    ELSE LET title0 == Strip(response.title)
             title  == IF EndsWith(title0, chrome_store_suffix)
                       THEN Strip(Take(title0, Len(title0) - Len(chrome_store_suffix)))
                       ELSE title0
         IN  IF title # <<>> THEN SomeName(title) ELSE NoName

(***************************************************************************)
(* sanitize_item_data.  kind "item": the sanitized record; "none": None;   *)
(* "raise": None.strip() raised AttributeError (the name is None).         *)
(***************************************************************************)

\* mutant: the name is not cut to NAME_LIMIT characters
SanitizeNameUncut(name) == unquote(StripTags(Strip(name)))

SanitizeName(name) ==
    LET n1 == unquote(StripTags(Strip(name)))
    IN  IF Len(n1) > NAME_LIMIT THEN Strip(Take(n1, NAME_LIMIT)) ELSE n1

sanitize_item_data(item_data) ==
    LET item_id == Strip(item_data.id)
    IN  IF item_id = <<>> \/ (\E i \in 1..Len(item_id) : item_id[i] \notin Alnum)
           \/ Len(item_id) # ID_LENGTH
        THEN [kind |-> "none"]
        ELSE IF ~item_data.name.ok THEN [kind |-> "raise"]
        ELSE LET item_name == SanitizeName(item_data.name.val)
             IN  IF item_name = <<>> THEN [kind |-> "none"]
                 ELSE IF item_name = Brand THEN [kind |-> "none"]
                 ELSE IF ~validate_url(item_data.page)
                         \/ ~is_valid_chrome_store_url(item_data.page)
                 THEN [kind |-> "none"]
                 ELSE IF ~validate_url(item_data.file) THEN [kind |-> "none"]
                 ELSE [kind |-> "item",
                       item |-> [id |-> item_id, name |-> item_name,
                                 page |-> item_data.page, file |-> item_data.file]]

(***************************************************************************)
(* extract_item_data.  The download URL is the fixed template with the id  *)
(* substituted; validators.url accepts it for the ids that reach the file  *)
(* check (32 alphanumeric characters).                                     *)
(***************************************************************************)

crx_download_url(item_id) ==
    [wf |-> TRUE, scheme |-> https, hostname |-> CrxHost, path |-> CrxPath,
     query |-> CrxQueryHead \o item_id \o CrxQueryTail]

extract_item_data(url, response) ==
    IF ~validate_url(url) \/ ~is_valid_chrome_store_url(url) THEN [kind |-> "none"]
    ELSE LET item_id == DetailIdSearch(UrlText(url))
         IN  IF item_id = <<>> THEN [kind |-> "none"]
             ELSE LET r == sanitize_item_data(
                               [id   |-> item_id,
                                name |-> get_chrome_store_item_name(response),
                                page |-> url,
                                file |-> crx_download_url(item_id)])
                  IN  IF r.kind = "raise" THEN [kind |-> "none"] ELSE r

(***************************************************************************)
(* Inputs: detail-page URLs as they occur in shard documents, and the      *)
(* responses of the catalog to a page request.                             *)
(***************************************************************************)

IdA == Rep("a", ID_LENGTH)

IdB == Rep("B", ID_LENGTH - 1) \o <<"7">>

IdShort == Rep("a", ID_LENGTH - 1)

IdDash == Rep("a", ID_LENGTH - 1) \o <<"-">>

SlugFoo == <<"f","o","o">>

SlugMyApp == <<"m","y","-","a","p","p","%","2","0","x">>

DetailUrl(host, slug, id, tail, query) ==
    [wf |-> TRUE, scheme |-> https, hostname |-> host,
     path |-> DetailLit \o slug \o <<"/">> \o id \o tail, query |-> query]

Urls ==
    << DetailUrl(CatalogHost, SlugFoo, IdA, <<>>, <<>>),
       DetailUrl(CatalogHost, SlugMyApp, IdA, <<>>, <<"h","l","=","e","n">>),
       DetailUrl(CatalogHost, SlugMyApp, IdB, <<"/">>, <<>>),
       DetailUrl(CatalogHost, SlugFoo, IdShort, <<>>, <<>>),
       DetailUrl(CatalogHost, SlugFoo, IdDash, <<>>, <<>>),
       DetailUrl(<<"e","x","a","m","p","l","e",".","c","o","m">>, SlugFoo, IdA, <<>>, <<>>),
       DetailUrl(<<"1","0",".","0",".","0",".","1">>, SlugFoo, IdA, <<>>, <<>>),
       [wf |-> TRUE, scheme |-> https, hostname |-> CatalogHost,
        path |-> DetailLit \o SlugFoo, query |-> <<>>],
       [wf |-> FALSE, scheme |-> https, hostname |-> CatalogHost,
        path |-> DetailLit \o SlugFoo \o <<"/">> \o IdA, query |-> <<>>],
       [wf |-> TRUE, scheme |-> <<"f","t","p">>, hostname |-> CatalogHost,
        path |-> DetailLit \o SlugFoo \o <<"/">> \o IdA, query |-> <<>>],
       [wf |-> TRUE, scheme |-> http, hostname |-> CatalogHost,
        path |-> <<"/","c","a","t","e","g","o","r","y">>, query |-> <<>>],
       DetailUrl(<<"l","o","c","a","l","h","o","s","t">>, SlugFoo, IdA, <<>>, <<>>),
       DetailUrl(<<"1","2","7",".","0",".","0",".","1">>, SlugFoo, IdA, <<>>, <<>>),
       DetailUrl(<<":",":","1">>, SlugFoo, IdA, <<>>, <<>>),
       DetailUrl(<<"1","7","2",".","1","6",".","0",".","1">>, SlugFoo, IdA, <<>>, <<>>),
       DetailUrl(<<"1","9","2",".","1","6","8",".","1",".","1">>, SlugFoo, IdA, <<>>, <<>>) >>

TitleFoo == <<"F","o","o">>

TitleBar == <<"B","a","r">>

Title(t) == [kind |-> "title", title |-> t]

Responses ==
    << [kind |-> "error", title |-> <<>>],
       [kind |-> "notitle", title |-> <<>>],
       Title(TitleFoo \o chrome_store_suffix),
       Title(<<" ">> \o TitleBar \o <<"\n">>),
       Title(Brand),
       Title(Brand \o chrome_store_suffix),
       Title(<<"<","b",">">> \o TitleFoo \o <<"<","/","b",">","%","2","0">> \o TitleBar
             \o chrome_store_suffix),
       Title(Rep("x", NAME_LIMIT - 1) \o <<" ", "y">> \o chrome_store_suffix),
       Title(<<"<","i",">","<","/","i",">">> \o chrome_store_suffix),
       Title(<<"%","2","5","3","C","b","%","3","E">>) >>

(***************************************************************************)
(* Sitemap documents.  A shard document is a sequence of <url> elements:   *)
(* hasLoc says whether the element has a <loc> child with non-empty text,  *)
(* url is the index in Urls of that text, resp the index in Responses of   *)
(* what the catalog answers when the item's page is requested.  The root   *)
(* document is a sequence of <sitemap> elements with their <loc> text.     *)
(***************************************************************************)

NoLoc == [hasLoc |-> FALSE, url |-> 1, resp |-> 1]

Loc(u, r) == [hasLoc |-> TRUE, url |-> u, resp |-> r]

Docs ==
    << <<>>,
       << Loc(6, 3), Loc(1, 3), Loc(11, 3), Loc(1, 1), Loc(3, 4) >>,
       << NoLoc, Loc(2, 8) >> >>

SitemapPrefix == <<"/","s","i","t","e","m","a","p","?">>

ShardLoc(n) == [hasLoc |-> TRUE, text |-> SitemapPrefix \o ShardMarker \o <<n>>]

RootEntries ==
    { ShardLoc("0"), ShardLoc("1"),
      [hasLoc |-> TRUE, text |-> SitemapPrefix \o <<"s","h","a","r","d">>],
      [hasLoc |-> FALSE, text |-> <<>>] }

\* the longest root document
MaxRootEntries == 2

\* the sizes of the worker pool
WorkerCounts == {1, 2}

\* the number of the shard a root entry names, 0 for an entry that names none
ShardNumber(e) ==
    IF e = ShardLoc("0") THEN 1 ELSE IF e = ShardLoc("1") THEN 2 ELSE 0

\* the root documents: the sitemap index lists its shards in ascending
\* order, possibly more than once, among entries that name no shard
Roots ==
    { root \in UNION {[1..n -> RootEntries] : n \in 0..MaxRootEntries} :
        \A i, j \in 1..Len(root) :
            (i < j /\ ShardNumber(root[i]) > 0 /\ ShardNumber(root[j]) > 0)
                => ShardNumber(root[i]) <= ShardNumber(root[j]) }

(***************************************************************************)
(* State.                                                                  *)
(***************************************************************************)

VARIABLES
    pc,            \* where run() is: "start", "collect", "returned", "ended"
    root_fetch,    \* the root sitemap fetch: "pending", "failed" or "ok"
    max_workers,   \* self.max_workers
    shard_urls,    \* the list _extract_shard_urls returned
    tasks,         \* the futures of fetch_all_items, in submission order: the shard
                   \* URL, the state st of the call of _process_shard ("pending",
                   \* "fetch", "loop", "sleep", "returned" or "failed" when the
                   \* call raised, then "merged"), how often
                   \* it was started (runs), how many calls of _fetch_sitemap
                   \* returned in it (fetches), the document fetched (doc), the path
                   \* on which the call returned and its result
    all_items,     \* all_items of fetch_all_items
    statistics,    \* self.statistics
    request_times, \* len(self.performance.request_times)
    returned,      \* the list fetch_all_items returned
    file_written,  \* whether save_data wrote the output file
    file_data,     \* the list save_data wrote
    exit_status,   \* "running", "ok" (run returned) or "error" (sys.exit(1))
    interrupt,     \* where KeyboardInterrupt reached the main thread: "none",
                   \* "root", "collect" or "save"
    summary_logged, \* whether run() logged the performance summary
    xUrl, xResp, xOut, xPc,  \* one call of extract_item_data: input, result
    xAgain,        \* sanitize_item_data applied to the record in xOut
    xEntry,        \* the loop body of _process_shard run on one <url> element
    retry_attempts, \* self.retry_attempts, the `total` of the Retry strategy
    fTrace,        \* one call of _fetch_sitemap: what each attempt of the GET met
    fPc,           \* "idle", "attempt" or "done"
    fOut,          \* what the call returned: "pending", "tree" or "none"
    fRecorded      \* how many request durations the call recorded

vars ==
    <<pc, root_fetch, max_workers, shard_urls, tasks, all_items, statistics,
      request_times, returned, file_written, file_data, exit_status,
      interrupt, summary_logged, xUrl, xResp, xOut, xPc, xAgain, xEntry,
      retry_attempts, fTrace, fPc, fOut, fRecorded>>

pipelineVars ==
    <<pc, root_fetch, max_workers, shard_urls, tasks, all_items, statistics,
      request_times, returned, file_written, file_data, exit_status,
                   interrupt, summary_logged>>

extractVars == <<xUrl, xResp, xOut, xPc, xAgain, xEntry>>

fetchVars == <<retry_attempts, fTrace, fPc, fOut, fRecorded>>

ZeroStats ==
    [total_urls |-> 0, invalid_urls |-> 0, failed_extractions |-> 0, valid_items |-> 0]

EmptyResult == [items |-> <<>>, stats |-> ZeroStats]

InitStatistics ==
    [total_shards |-> 0, failed_shards |-> 0, total_urls |-> 0, invalid_urls |-> 0,
     failed_extractions |-> 0, valid_items |-> 0, duplicate_items |-> 0,
     unique_items |-> 0]

PipelineInit ==
    /\ pc = "start"
    /\ root_fetch = "pending"
    /\ max_workers \in WorkerCounts
    /\ shard_urls = <<>>
    /\ tasks = <<>>
    /\ all_items = <<>>
    /\ statistics = InitStatistics
    /\ request_times = 0
    /\ returned = <<>>
    /\ file_written = FALSE
    /\ file_data = <<>>
    /\ exit_status = "running"
    /\ interrupt = "none"
    /\ summary_logged = FALSE

(***************************************************************************)
(* _extract_shard_urls                                                     *)
(***************************************************************************)

IsShardEntry(e) == e.hasLoc /\ e.text # <<>> /\ Contains(e.text, ShardMarker)

RECURSIVE extract_shard_urls(_)
extract_shard_urls(root) ==
    IF root = <<>> THEN <<>>
    ELSE (IF IsShardEntry(Head(root)) THEN <<Head(root).text>> ELSE <<>>)
         \o extract_shard_urls(Tail(root))

(***************************************************************************)
(* _process_shard: the loop over the <url> elements.                       *)
(***************************************************************************)

\* mutant: a failed extraction is counted as an invalid URL
ProcessEntryMiscounts(result, entry) ==
    IF ~entry.hasLoc THEN result
    ELSE LET counted == [result EXCEPT !.stats.total_urls = @ + 1]
             url == Urls[entry.url]
             item == extract_item_data(url, Responses[entry.resp])
         IN  IF is_valid_chrome_store_url(url) /\ item.kind = "item"
             THEN [counted EXCEPT !.items = Append(@, item.item),
                                  !.stats.valid_items = @ + 1]
             ELSE [counted EXCEPT !.stats.invalid_urls = @ + 1]

\* mutant: an element without <loc> text is counted, as an invalid URL
ProcessEntryCountsEmpty(result, entry) ==
    IF ~entry.hasLoc
    THEN [result EXCEPT !.stats.total_urls = @ + 1, !.stats.invalid_urls = @ + 1]
    ELSE LET counted == [result EXCEPT !.stats.total_urls = @ + 1]
             url == Urls[entry.url]
         IN  IF is_valid_chrome_store_url(url)
             THEN LET item == extract_item_data(url, Responses[entry.resp])
                  IN  IF item.kind = "item"
                      THEN [counted EXCEPT !.items = Append(@, item.item),
                                           !.stats.valid_items = @ + 1]
                      ELSE [counted EXCEPT !.stats.failed_extractions = @ + 1]
             ELSE [counted EXCEPT !.stats.invalid_urls = @ + 1]

ProcessEntry(result, entry) ==
    IF ~entry.hasLoc THEN result
    ELSE LET counted == [result EXCEPT !.stats.total_urls = @ + 1]
             url == Urls[entry.url]
         IN  IF is_valid_chrome_store_url(url)
             THEN LET item == extract_item_data(url, Responses[entry.resp])
                  IN  IF item.kind = "item"
                      THEN [counted EXCEPT !.items = Append(@, item.item),
                                           !.stats.valid_items = @ + 1]
                      ELSE [counted EXCEPT !.stats.failed_extractions = @ + 1]
             ELSE [counted EXCEPT !.stats.invalid_urls = @ + 1]

\* result after the first n elements of doc
RECURSIVE ProcessEntries(_, _)
ProcessEntries(doc, n) ==
    IF n = 0 THEN EmptyResult ELSE ProcessEntry(ProcessEntries(doc, n - 1), doc[n])

\* ProcessEntries, tabulated for the documents of Docs
ProcessedUpTo ==
    [d \in 1..Len(Docs) |-> [n \in 0..Len(Docs[d]) |-> ProcessEntries(Docs[d], n)]]

\* result when a call made for element k (is_valid_chrome_store_url or
\* extract_item_data, after total_urls was incremented) raises
RaisedAt(d, k) ==
    [ProcessedUpTo[d][k - 1] EXCEPT !.stats.total_urls = @ + 1]

\* the elements of a document for which a call is taken to raise: the last
\* one that has a <loc>, so that everything before it has been accumulated
RaisePoints ==
    [d \in 1..Len(Docs) |->
        {k \in 1..Len(Docs[d]) :
            /\ Docs[d][k].hasLoc
            /\ \A j \in (k + 1)..Len(Docs[d]) : ~Docs[d][j].hasLoc}]

(***************************************************************************)
(* The worker pool: ThreadPoolExecutor(max_workers=self.max_workers) runs  *)
(* the submitted tasks in submission order, at most max_workers at a time. *)
(***************************************************************************)

Running(t) == tasks[t].st \in {"fetch", "loop", "sleep"}

\* mutant: the pool starts a thread for every queued task
WorkerAlwaysAvailable == TRUE

\* mutant: a pool thread runs one task and is not used again
WorkerNeverFreed ==
    Cardinality({t \in 1..Len(tasks) : tasks[t].st # "pending"}) < max_workers

WorkerAvailable == Cardinality({t \in 1..Len(tasks) : Running(t)}) < max_workers

NextPending(t) ==
    /\ tasks[t].st = "pending"
    /\ \A u \in 1..(t - 1) : tasks[u].st # "pending"

\* executor.submit(self._process_shard, shard_url) for shard_url in shard_urls
SubmitAll(urls) ==
    [t \in 1..Len(urls) |->
        [url |-> urls[t], st |-> "pending", runs |-> 0, fetches |-> 0, doc |-> 1,
         path |-> "", result |-> EmptyResult]]

(***************************************************************************)
(* Deduplication: {item["id"]: item for item in all_items}, then           *)
(* list(values()).  A dict keeps a key at the position of its first        *)
(* insertion and the value of its last.                                    *)
(***************************************************************************)

\* mutant: every item is kept, whatever its id
DictPutAppends(d, item) == Append(d, item)

\* mutant: the first record seen for an id is kept
DictPutKeepsFirst(d, item) ==
    IF \E i \in 1..Len(d) : d[i].id = item.id THEN d ELSE Append(d, item)

\* mutant: an id seen again moves to the end of the dict
DictPutMovesToEnd(d, item) ==
    Append(SelectSeq(d, LAMBDA x : x.id # item.id), item)

DictPut(d, item) ==
    IF \E i \in 1..Len(d) : d[i].id = item.id
    THEN [i \in 1..Len(d) |-> IF d[i].id = item.id THEN item ELSE d[i]]
    ELSE Append(d, item)

RECURSIVE unique_items_dict(_, _)
unique_items_dict(items, n) ==
    IF n = 0 THEN <<>> ELSE DictPut(unique_items_dict(items, n - 1), items[n])

Deduplicate(items) == unique_items_dict(items, Len(items))

(***************************************************************************)
(* fetch_all_items up to the submission of the shard tasks.  The request   *)
(* for the root sitemap fails (RequestException or ParseError: the fetch   *)
(* returns None) or yields a root document.                                *)
(***************************************************************************)

RootFetchFails ==
    /\ UNCHANGED extractVars
    /\ UNCHANGED fetchVars
    /\ pc = "start"
    /\ request_times' = request_times + 1
    /\ root_fetch' = "failed"
    /\ returned' = <<>>
    /\ pc' = "returned"
    /\ UNCHANGED <<max_workers, shard_urls, tasks, all_items, statistics,
                   file_written, file_data, exit_status,
                   interrupt, summary_logged>>

\* mutant: total_shards is set from the root document before the shard
\* list is looked at
RootFetchedCountsEntries ==
    /\ UNCHANGED extractVars
    /\ UNCHANGED fetchVars
    /\ pc = "start"
    /\ request_times' = request_times + 1
    /\ root_fetch' = "ok"
    /\ \E root \in Roots :
         LET urls == extract_shard_urls(root)
         IN  IF urls = <<>>
             THEN /\ returned' = <<>>
                  /\ pc' = "returned"
                  /\ statistics' = [statistics EXCEPT !.total_shards = Len(root)]
                  /\ UNCHANGED <<shard_urls, tasks>>
             ELSE /\ shard_urls' = urls
                  /\ statistics' = [statistics EXCEPT !.total_shards = Len(urls)]
                  /\ tasks' = SubmitAll(urls)
                  /\ pc' = "collect"
                  /\ UNCHANGED returned
    /\ UNCHANGED <<max_workers, all_items, file_written, file_data, exit_status,
                   interrupt, summary_logged>>

RootFetched ==
    /\ UNCHANGED extractVars
    /\ UNCHANGED fetchVars
    /\ pc = "start"
    /\ request_times' = request_times + 1
    /\ root_fetch' = "ok"
    /\ \E root \in Roots :
         LET urls == extract_shard_urls(root)
         IN  IF urls = <<>>
             THEN /\ returned' = <<>>
                  /\ pc' = "returned"
                  /\ UNCHANGED <<shard_urls, tasks, statistics>>
             ELSE /\ shard_urls' = urls
                  /\ statistics' = [statistics EXCEPT !.total_shards = Len(urls)]
                  /\ tasks' = SubmitAll(urls)
                  /\ pc' = "collect"
                  /\ UNCHANGED returned
    /\ UNCHANGED <<max_workers, all_items, file_written, file_data, exit_status,
                   interrupt, summary_logged>>

(***************************************************************************)
(* A worker thread running _process_shard for task t.                      *)
(***************************************************************************)

\* a pool thread takes the task from the queue and calls _process_shard
StartTask(t) ==
    /\ UNCHANGED extractVars
    /\ UNCHANGED fetchVars
    /\ pc \in {"collect", "shutdown"}
    /\ NextPending(t)
    /\ WorkerAvailable
    /\ tasks' = [tasks EXCEPT ![t].st = "fetch", ![t].runs = @ + 1]
    /\ UNCHANGED <<pc, root_fetch, max_workers, shard_urls, all_items, statistics, request_times,
                   returned, file_written, file_data, exit_status,
                   interrupt, summary_logged>>

\* mutant: the duration of a successful request is recorded twice
ShardFetchedRecordsTwice(t) ==
    /\ UNCHANGED extractVars
    /\ UNCHANGED fetchVars
    /\ tasks[t].st = "fetch"
    /\ request_times' = request_times + 2
    /\ \E d \in 1..Len(Docs) :
         tasks' = [tasks EXCEPT ![t].st = "loop", ![t].doc = d, ![t].fetches = @ + 1]
    /\ UNCHANGED <<pc, root_fetch, max_workers, shard_urls, all_items, statistics,
                   returned, file_written, file_data, exit_status,
                   interrupt, summary_logged>>

\* _fetch_sitemap(shard_url) returns a document
ShardFetched(t) ==
    /\ UNCHANGED extractVars
    /\ UNCHANGED fetchVars
    /\ tasks[t].st = "fetch"
    /\ request_times' = request_times + 1
    /\ \E d \in 1..Len(Docs) :
         tasks' = [tasks EXCEPT ![t].st = "loop", ![t].doc = d, ![t].fetches = @ + 1]
    /\ UNCHANGED <<pc, root_fetch, max_workers, shard_urls, all_items, statistics,
                   returned, file_written, file_data, exit_status,
                   interrupt, summary_logged>>

\* mutant: a shard that cannot be fetched makes the task raise
ShardFetchFailsSignals(t) ==
    /\ UNCHANGED extractVars
    /\ UNCHANGED fetchVars
    /\ tasks[t].st = "fetch"
    /\ request_times' = request_times + 1
    /\ tasks' = [tasks EXCEPT ![t].st = "failed", ![t].path = "fetch_failed",
                               ![t].fetches = @ + 1, ![t].result = EmptyResult]
    /\ UNCHANGED <<pc, root_fetch, max_workers, shard_urls, all_items, statistics,
                   returned, file_written, file_data, exit_status,
                   interrupt, summary_logged>>

\* _fetch_sitemap(shard_url) returns None: _process_shard returns at once
ShardFetchFails(t) ==
    /\ UNCHANGED extractVars
    /\ UNCHANGED fetchVars
    /\ tasks[t].st = "fetch"
    /\ request_times' = request_times + 1
    /\ tasks' = [tasks EXCEPT ![t].st = "returned", ![t].path = "fetch_failed",
                               ![t].fetches = @ + 1, ![t].result = EmptyResult]
    /\ UNCHANGED <<pc, root_fetch, max_workers, shard_urls, all_items, statistics,
                   returned, file_written, file_data, exit_status,
                   interrupt, summary_logged>>

\* _fetch_sitemap raises an exception it does not handle itself (neither
\* RequestException nor ParseError): `except Exception` of _process_shard
FetchRaises(t) ==
    /\ UNCHANGED extractVars
    /\ UNCHANGED fetchVars
    /\ tasks[t].st = "fetch"
    /\ tasks' = [tasks EXCEPT ![t].st = "returned", ![t].path = "raised",
                               ![t].result = EmptyResult]
    /\ UNCHANGED <<pc, root_fetch, max_workers, shard_urls, all_items, statistics,
                   request_times, returned, file_written, file_data, exit_status,
                   interrupt, summary_logged>>

\* mutant: the worker adds its counters to self.statistics itself
LoopCompletesWritesGlobal(t) ==
    /\ UNCHANGED extractVars
    /\ UNCHANGED fetchVars
    /\ tasks[t].st = "loop"
    /\ LET d == tasks[t].doc
       IN  /\ tasks' = [tasks EXCEPT ![t].st = "sleep",
                                     ![t].result = ProcessedUpTo[d][Len(Docs[d])]]
           /\ statistics' = [statistics EXCEPT !.total_urls =
                                @ + ProcessedUpTo[d][Len(Docs[d])].stats.total_urls]
    /\ UNCHANGED <<pc, root_fetch, max_workers, shard_urls, all_items, request_times,
                   returned, file_written, file_data, exit_status,
                   interrupt, summary_logged>>

\* the loop runs over every element of the document
LoopCompletes(t) ==
    /\ UNCHANGED extractVars
    /\ UNCHANGED fetchVars
    /\ tasks[t].st = "loop"
    /\ LET d == tasks[t].doc
       IN  tasks' = [tasks EXCEPT ![t].st = "sleep",
                                  ![t].result = ProcessedUpTo[d][Len(Docs[d])]]
    /\ UNCHANGED <<pc, root_fetch, max_workers, shard_urls, all_items, statistics, request_times,
                   returned, file_written, file_data, exit_status,
                   interrupt, summary_logged>>

\* mutant: what was accumulated before the exception is dropped
LoopRaisesDropsResult(t) ==
    /\ UNCHANGED extractVars
    /\ UNCHANGED fetchVars
    /\ tasks[t].st = "loop"
    /\ RaisePoints[tasks[t].doc] # {}
    /\ tasks' = [tasks EXCEPT ![t].st = "returned", ![t].path = "raised",
                               ![t].result = EmptyResult]
    /\ UNCHANGED <<pc, root_fetch, max_workers, shard_urls, all_items, statistics,
                   request_times, returned, file_written, file_data, exit_status,
                   interrupt, summary_logged>>

\* a call made for element k raises; `except Exception` logs it and the
\* result accumulated so far is returned, without the sleep
LoopRaises(t) ==
    /\ UNCHANGED extractVars
    /\ UNCHANGED fetchVars
    /\ tasks[t].st = "loop"
    /\ LET d == tasks[t].doc
       IN  \E k \in RaisePoints[d] :
             tasks' = [tasks EXCEPT ![t].st = "returned", ![t].path = "raised",
                                    ![t].result = RaisedAt(d, k)]
    /\ UNCHANGED <<pc, root_fetch, max_workers, shard_urls, all_items, statistics, request_times,
                   returned, file_written, file_data, exit_status,
                   interrupt, summary_logged>>

\* mutant: a worker that returns also clears the results of the others
SleepClearsOthers(t) ==
    /\ UNCHANGED extractVars
    /\ UNCHANGED fetchVars
    /\ tasks[t].st = "sleep"
    /\ tasks' = [u \in 1..Len(tasks) |->
                    IF u = t THEN [tasks[u] EXCEPT !.st = "returned", !.path = "slept"]
                    ELSE [tasks[u] EXCEPT !.result = EmptyResult]]
    /\ UNCHANGED <<pc, root_fetch, max_workers, shard_urls, all_items, statistics,
                   request_times, returned, file_written, file_data, exit_status,
                   interrupt, summary_logged>>

\* time.sleep(self.delay), then return result
Sleep(t) ==
    /\ UNCHANGED extractVars
    /\ UNCHANGED fetchVars
    /\ tasks[t].st = "sleep"
    /\ tasks' = [tasks EXCEPT ![t].st = "returned", ![t].path = "slept"]
    /\ UNCHANGED <<pc, root_fetch, max_workers, shard_urls, all_items, statistics, request_times,
                   returned, file_written, file_data, exit_status,
                   interrupt, summary_logged>>

\* time.sleep raises: the result is complete, the handler logs, return result
SleepRaises(t) ==
    /\ UNCHANGED extractVars
    /\ UNCHANGED fetchVars
    /\ tasks[t].st = "sleep"
    /\ tasks' = [tasks EXCEPT ![t].st = "returned", ![t].path = "raised"]
    /\ UNCHANGED <<pc, root_fetch, max_workers, shard_urls, all_items, statistics,
                   request_times, returned, file_written, file_data, exit_status,
                   interrupt, summary_logged>>

\* an exception leaves _process_shard: the only statement outside the reach
\* of its handler is the handler's own logging call (core.py:362), so this
\* is an exception of the try block followed by one raised while logging it.
\* The future holds the exception and no result.
TaskRaises(t) ==
    /\ UNCHANGED extractVars
    /\ UNCHANGED fetchVars
    /\ tasks[t].st \in {"fetch", "loop", "sleep"}
    /\ tasks' = [tasks EXCEPT ![t].st = "failed", ![t].path = "handler_raised",
                               ![t].doc = 1, ![t].result = EmptyResult]
    /\ UNCHANGED <<pc, root_fetch, max_workers, shard_urls, all_items, statistics,
                   request_times, returned, file_written, file_data, exit_status,
                   interrupt, summary_logged>>

(***************************************************************************)
(* The orchestrator: as_completed yields a finished task, whose result is  *)
(* merged; after the last merge the list is deduplicated and returned.     *)
(***************************************************************************)

\* mutant: the counters are overwritten instead of accumulated
MergedStatisticsOverwrites(stats, shard_stats) ==
    [stats EXCEPT !.total_urls = shard_stats.total_urls,
                  !.invalid_urls = shard_stats.invalid_urls,
                  !.failed_extractions = shard_stats.failed_extractions,
                  !.valid_items = shard_stats.valid_items]

MergedStatistics(stats, shard_stats) ==
    [stats EXCEPT !.total_urls = @ + shard_stats.total_urls,
                  !.invalid_urls = @ + shard_stats.invalid_urls,
                  !.failed_extractions = @ + shard_stats.failed_extractions,
                  !.valid_items = @ + shard_stats.valid_items]

\* mutant: a shard that yielded no item is queued again
MergeRetriesEmpty(t) ==
    /\ UNCHANGED extractVars
    /\ UNCHANGED fetchVars
    /\ pc = "collect"
    /\ tasks[t].st = "returned"
    /\ all_items' = all_items \o tasks[t].result.items
    /\ statistics' = statistics
    /\ tasks' = [tasks EXCEPT ![t].st =
                    IF tasks[t].result.items = <<>> /\ tasks[t].runs < 2
                    THEN "pending" ELSE "merged"]
    /\ UNCHANGED <<pc, root_fetch, max_workers, shard_urls, request_times,
                   returned, file_written, file_data, exit_status,
                   interrupt, summary_logged>>

Merge(t) ==
    /\ UNCHANGED extractVars
    /\ UNCHANGED fetchVars
    /\ pc = "collect"
    /\ tasks[t].st = "returned"
    /\ all_items' = all_items \o tasks[t].result.items
    /\ statistics' = MergedStatistics(statistics, tasks[t].result.stats)
    /\ tasks' = [tasks EXCEPT ![t].st = "merged"]
    /\ UNCHANGED <<pc, root_fetch, max_workers, shard_urls, request_times,
                   returned, file_written, file_data, exit_status,
                   interrupt, summary_logged>>

\* mutant: the failed shard is also counted as one URL
MergeFailedCountsUrl(t) ==
    /\ UNCHANGED extractVars
    /\ UNCHANGED fetchVars
    /\ pc = "collect"
    /\ tasks[t].st = "failed"
    /\ statistics' = [statistics EXCEPT !.failed_shards = @ + 1, !.total_urls = @ + 1]
    /\ tasks' = [tasks EXCEPT ![t].st = "merged"]
    /\ UNCHANGED <<pc, root_fetch, max_workers, shard_urls, all_items, request_times,
                   returned, file_written, file_data, exit_status,
                   interrupt, summary_logged>>

\* future.result() raises the task's exception: `except Exception` counts the shard
MergeFailed(t) ==
    /\ UNCHANGED extractVars
    /\ UNCHANGED fetchVars
    /\ pc = "collect"
    /\ tasks[t].st = "failed"
    /\ statistics' = [statistics EXCEPT !.failed_shards = @ + 1]
    /\ tasks' = [tasks EXCEPT ![t].st = "merged"]
    /\ UNCHANGED <<pc, root_fetch, max_workers, shard_urls, all_items, request_times,
                   returned, file_written, file_data, exit_status,
                   interrupt, summary_logged>>

\* mutant: duplicate_items is the length of the list before deduplication
FinalStatisticsCountsAll(stats, items_before_dedup, unique_items) ==
    [stats EXCEPT !.duplicate_items = items_before_dedup,
                  !.unique_items = Len(unique_items)]

FinalStatistics(stats, items_before_dedup, unique_items) ==
    [stats EXCEPT !.duplicate_items = items_before_dedup - Len(unique_items),
                  !.unique_items = Len(unique_items)]

FinishCollect ==
    /\ UNCHANGED extractVars
    /\ UNCHANGED fetchVars
    /\ pc = "collect"
    /\ \A t \in 1..Len(tasks) : tasks[t].st = "merged"
    /\ LET unique_items == Deduplicate(all_items)
       IN  /\ statistics' = FinalStatistics(statistics, Len(all_items), unique_items)
           /\ returned' = unique_items
    /\ pc' = "returned"
    /\ UNCHANGED <<root_fetch, max_workers, shard_urls, tasks, all_items,
                   request_times, file_written, file_data, exit_status,
                   interrupt, summary_logged>>

(***************************************************************************)
(* run() after fetch_all_items: nothing is saved for an empty list;        *)
(* otherwise save_data writes the file, or fails with OSError and exits.   *)
(***************************************************************************)

\* mutant: the empty list is saved like any other
NoItemsSaved ==
    /\ UNCHANGED extractVars
    /\ UNCHANGED fetchVars
    /\ pc = "returned"
    /\ returned = <<>>
    /\ file_written' = TRUE
    /\ file_data' = returned
    /\ pc' = "ended"
    /\ exit_status' = "ok"
    /\ UNCHANGED <<root_fetch, max_workers, shard_urls, tasks, all_items, statistics,
                   request_times, returned, interrupt, summary_logged>>

NoItemsCollected ==
    /\ UNCHANGED extractVars
    /\ UNCHANGED fetchVars
    /\ pc = "returned"
    /\ returned = <<>>
    /\ pc' = "ended"
    /\ exit_status' = "ok"
    /\ UNCHANGED <<root_fetch, max_workers, shard_urls, tasks, all_items, statistics,
                   request_times, returned, file_written, file_data,
                   interrupt, summary_logged>>

\* mutant: the list before deduplication is written
SaveDataBeforeDedup ==
    /\ UNCHANGED extractVars
    /\ UNCHANGED fetchVars
    /\ pc = "returned"
    /\ returned # <<>>
    /\ file_written' = TRUE
    /\ file_data' = all_items
    /\ pc' = "ended"
    /\ exit_status' = "ok"
    /\ summary_logged' = TRUE
    /\ UNCHANGED <<root_fetch, max_workers, shard_urls, tasks, all_items, statistics,
                   request_times, returned, interrupt>>

SaveData ==
    /\ UNCHANGED extractVars
    /\ UNCHANGED fetchVars
    /\ pc = "returned"
    /\ returned # <<>>
    /\ file_written' = TRUE
    /\ file_data' = returned
    /\ pc' = "ended"
    /\ exit_status' = "ok"
    /\ summary_logged' = TRUE
    /\ UNCHANGED <<root_fetch, max_workers, shard_urls, tasks, all_items, statistics,
                   request_times, returned, interrupt>>

\* sys.exit(1) in save_data raises SystemExit, which run() does not catch
SaveDataFails ==
    /\ UNCHANGED extractVars
    /\ UNCHANGED fetchVars
    /\ pc = "returned"
    /\ returned # <<>>
    /\ pc' = "ended"
    /\ exit_status' = "error"
    /\ UNCHANGED <<root_fetch, max_workers, shard_urls, tasks, all_items, statistics,
                   request_times, returned, file_written, file_data,
                   interrupt, summary_logged>>

(***************************************************************************)
(* KeyboardInterrupt.  It is raised in the main thread only.  run() logs   *)
(* the summary and calls sys.exit(1).  Raised in the `with` block of       *)
(* fetch_all_items, it first leaves the block: the executor is shut down   *)
(* with wait=True, so the tasks in flight finish and the tasks still in    *)
(* the queue are run before the exception reaches run().                   *)
(***************************************************************************)

\* the interrupt arrives during the root fetch
InterruptRootFetch ==
    /\ UNCHANGED extractVars
    /\ UNCHANGED fetchVars
    /\ pc = "start"
    /\ interrupt' = "root"
    /\ summary_logged' = TRUE
    /\ exit_status' = "error"
    /\ pc' = "ended"
    /\ UNCHANGED <<root_fetch, max_workers, shard_urls, tasks, all_items, statistics,
                   request_times, returned, file_written, file_data>>

\* the interrupt arrives in the as_completed loop
InterruptCollect ==
    /\ UNCHANGED extractVars
    /\ UNCHANGED fetchVars
    /\ pc = "collect"
    /\ interrupt' = "collect"
    /\ pc' = "shutdown"
    /\ UNCHANGED <<root_fetch, max_workers, shard_urls, tasks, all_items, statistics,
                   request_times, returned, file_written, file_data, exit_status,
                   summary_logged>>

\* executor.shutdown(wait=True) has joined the workers; run() handles the interrupt
ExitAfterShutdown ==
    /\ UNCHANGED extractVars
    /\ UNCHANGED fetchVars
    /\ pc = "shutdown"
    /\ \A t \in 1..Len(tasks) : tasks[t].st \in {"returned", "failed", "merged"}
    /\ summary_logged' = TRUE
    /\ exit_status' = "error"
    /\ pc' = "ended"
    /\ UNCHANGED <<root_fetch, max_workers, shard_urls, tasks, all_items, statistics,
                   request_times, returned, file_written, file_data, interrupt>>

\* the interrupt arrives after fetch_all_items returned: before save_data
\* opened the file, or in json.dump, when the file holds what was written so far
InterruptSave ==
    /\ UNCHANGED extractVars
    /\ UNCHANGED fetchVars
    /\ pc = "returned"
    /\ \/ UNCHANGED <<file_written, file_data>>
       \/ /\ returned # <<>>
          /\ file_written' = TRUE
          /\ \E k \in 0..Len(returned) : file_data' = SubSeq(returned, 1, k)
    /\ interrupt' = "save"
    /\ summary_logged' = TRUE
    /\ exit_status' = "error"
    /\ pc' = "ended"
    /\ UNCHANGED <<root_fetch, max_workers, shard_urls, tasks, all_items, statistics,
                   request_times, returned>>

\* no call of _fetch_sitemap is followed attempt by attempt
FetchIdle ==
    /\ retry_attempts = 0
    /\ fTrace = <<>>
    /\ fPc = "idle"
    /\ fOut = "pending"
    /\ fRecorded = 0

Init ==
    /\ PipelineInit
    /\ xUrl = 1 /\ xResp = 1 /\ xOut = [kind |-> "none"] /\ xPc = "idle"
    /\ xAgain = [kind |-> "none"] /\ xEntry = EmptyResult
    /\ FetchIdle

Next ==
    \/ RootFetchFails
    \/ RootFetched
    \/ \E t \in 1..Len(tasks) : StartTask(t)
    \/ \E t \in 1..Len(tasks) : ShardFetched(t)
    \/ \E t \in 1..Len(tasks) : ShardFetchFails(t)
    \/ \E t \in 1..Len(tasks) : LoopCompletes(t)
    \/ \E t \in 1..Len(tasks) : LoopRaises(t)
    \/ \E t \in 1..Len(tasks) : Sleep(t)
    \/ \E t \in 1..Len(tasks) : FetchRaises(t)
    \/ \E t \in 1..Len(tasks) : SleepRaises(t)
    \/ \E t \in 1..Len(tasks) : TaskRaises(t)
    \/ \E t \in 1..Len(tasks) : Merge(t)
    \/ \E t \in 1..Len(tasks) : MergeFailed(t)
    \/ FinishCollect
    \/ NoItemsCollected
    \/ SaveData
    \/ SaveDataFails

Spec == Init /\ [][Next]_vars

\* the steps of the pool thread that runs task t
TaskStep(t) ==
    /\ t \in 1..Len(tasks)
    /\ \/ StartTask(t)
       \/ ShardFetched(t)
       \/ ShardFetchFails(t)
       \/ FetchRaises(t)
       \/ LoopCompletes(t)
       \/ LoopRaises(t)
       \/ Sleep(t)
       \/ SleepRaises(t)
       \/ TaskRaises(t)

\* the steps of the main thread in fetch_all_items
OrchestratorStep ==
    \/ RootFetchFails
    \/ RootFetched
    \/ \E t \in 1..Len(tasks) : Merge(t)
    \/ \E t \in 1..Len(tasks) : MergeFailed(t)
    \/ FinishCollect

\* a step of one of the threads of fetch_all_items
CollectStep ==
    \/ OrchestratorStep
    \/ \E t \in 1..Len(tasks) : TaskStep(t)

\* while some thread of fetch_all_items can take a step, one of them does in
\* the end: a request ends (response, error or timeout), a sleep ends, and
\* the scheduler runs a thread that is ready.  This asks less than the fair
\* scheduling of every single thread.
LiveSpec ==
    /\ Init
    /\ [][Next]_vars
    /\ WF_vars(CollectStep)

\* a run in which the user may interrupt the process
InterruptNext ==
    \/ Next
    \/ InterruptRootFetch
    \/ InterruptCollect
    \/ ExitAfterShutdown
    \/ InterruptSave

InterruptSpec == Init /\ [][InterruptNext]_vars

(***************************************************************************)
(* One call of extract_item_data on a URL and a page response.             *)
(***************************************************************************)

ExtractInit ==
    /\ PipelineInit
    /\ xUrl \in 1..Len(Urls)
    /\ xResp \in 1..Len(Responses)
    /\ xOut = [kind |-> "none"]
    /\ xPc = "call"
    /\ xAgain = [kind |-> "none"]
    /\ xEntry = EmptyResult
    /\ FetchIdle

ExtractItem ==
    /\ xPc = "call"
    /\ xOut' = extract_item_data(Urls[xUrl], Responses[xResp])
    /\ xPc' = "done"
    /\ UNCHANGED <<xUrl, xResp, xAgain, xEntry>>
    /\ UNCHANGED pipelineVars
    /\ UNCHANGED fetchVars

\* the record extract_item_data returned, as the dict sanitize_item_data reads
AsItemData(item) ==
    [id |-> item.id, name |-> SomeName(item.name), page |-> item.page, file |-> item.file]

\* sanitize_item_data called on the record it returned
SanitizeAgain ==
    /\ xPc = "done"
    /\ xOut.kind = "item"
    /\ xAgain' = sanitize_item_data(AsItemData(xOut.item))
    /\ xPc' = "again"
    /\ UNCHANGED <<xUrl, xResp, xOut, xEntry>>
    /\ UNCHANGED pipelineVars
    /\ UNCHANGED fetchVars

\* the loop body of _process_shard for a <url> element whose <loc> is the URL
ClassifyEntry ==
    /\ xPc = "call"
    /\ xEntry' = ProcessEntry(EmptyResult, Loc(xUrl, xResp))
    /\ xPc' = "classified"
    /\ UNCHANGED <<xUrl, xResp, xOut, xAgain>>
    /\ UNCHANGED pipelineVars
    /\ UNCHANGED fetchVars

\* the loop body of _process_shard for a <url> element without <loc> text
ClassifyEmptyElement ==
    /\ xPc = "call"
    /\ xEntry' = ProcessEntry(EmptyResult, NoLoc)
    /\ xPc' = "classified_noloc"
    /\ UNCHANGED <<xUrl, xResp, xOut, xAgain>>
    /\ UNCHANGED pipelineVars
    /\ UNCHANGED fetchVars

ExtractNext ==
    \/ ExtractItem
    \/ SanitizeAgain
    \/ ClassifyEntry
    \/ ClassifyEmptyElement

ExtractSpec == ExtractInit /\ [][ExtractNext]_vars

(***************************************************************************)
(* One call of _fetch_sitemap, attempt by attempt.  The session mounts an  *)
(* adapter with Retry(total=retry_attempts, status_forcelist=..., allowed_ *)
(* methods=...): an attempt of the GET that meets a status of the list, or *)
(* that gets no response (connection error, timeout), is repeated while    *)
(* retries are left; when none is left the transport raises, and requests  *)
(* turns that into a RequestException.  Any other response is handed back: *)
(* raise_for_status raises HTTPError for an error status.                  *)
(***************************************************************************)

RETRY_STATUS_FORCELIST == {429, 500, 502, 503, 504}

\* what an attempt can meet: a response with a status and a body that is
\* XML or not, or no response at all (status 0)
AttemptOutcomes ==
    {[status |-> 200, xml |-> TRUE], [status |-> 200, xml |-> FALSE],
     [status |-> 404, xml |-> FALSE], [status |-> 0, xml |-> FALSE]}
        \cup {[status |-> c, xml |-> FALSE] : c \in RETRY_STATUS_FORCELIST}

\* the largest retry_attempts
MaxRetryAttempts == 2

Retryable(o) == o.status = 0 \/ o.status \in RETRY_STATUS_FORCELIST

\* mutant: one retry more than `total`
RetriesLeftPlusOne(trace, total) == Len(trace) < total + 1

\* Retry.increment: each repeated attempt takes one from `total`; trace
\* holds the attempts that were repeated
RetriesLeft(trace, total) == Len(trace) < total

FetchInit ==
    /\ PipelineInit
    /\ xUrl = 1 /\ xResp = 1 /\ xOut = [kind |-> "none"] /\ xPc = "idle"
    /\ xAgain = [kind |-> "none"] /\ xEntry = EmptyResult
    /\ retry_attempts \in 0..MaxRetryAttempts
    /\ fTrace = <<>>
    /\ fPc = "attempt"
    /\ fOut = "pending"
    /\ fRecorded = 0

\* status 200: the duration is recorded, then the body is parsed; ParseError
\* is caught and None returned
AttemptSucceeds ==
    /\ fPc = "attempt"
    /\ \E o \in AttemptOutcomes :
          /\ o.status = 200
          /\ fTrace' = Append(fTrace, o)
          /\ fOut' = IF o.xml THEN "tree" ELSE "none"
    /\ fRecorded' = fRecorded + 1
    /\ fPc' = "done"
    /\ UNCHANGED retry_attempts
    /\ UNCHANGED <<pipelineVars, extractVars>>

\* a status of the list or no response, and a retry is left: the transport
\* backs off and sends the request again
AttemptRetried ==
    /\ fPc = "attempt"
    /\ RetriesLeft(fTrace, retry_attempts)
    /\ \E o \in AttemptOutcomes :
          /\ Retryable(o)
          /\ fTrace' = Append(fTrace, o)
    /\ UNCHANGED <<retry_attempts, fPc, fOut, fRecorded>>
    /\ UNCHANGED <<pipelineVars, extractVars>>

\* a status of the list or no response, and no retry is left: RetryError or
\* ConnectionError, a RequestException; the handler records and returns None
RetriesExhausted ==
    /\ fPc = "attempt"
    /\ ~RetriesLeft(fTrace, retry_attempts)
    /\ \E o \in AttemptOutcomes :
          /\ Retryable(o)
          /\ fTrace' = Append(fTrace, o)
    /\ fOut' = "none"
    /\ fRecorded' = fRecorded + 1
    /\ fPc' = "done"
    /\ UNCHANGED retry_attempts
    /\ UNCHANGED <<pipelineVars, extractVars>>

\* an error status that is not in the list: raise_for_status raises
\* HTTPError; the handler records and returns None
AttemptRejected ==
    /\ fPc = "attempt"
    /\ \E o \in AttemptOutcomes :
          /\ o.status # 200
          /\ ~Retryable(o)
          /\ fTrace' = Append(fTrace, o)
    /\ fOut' = "none"
    /\ fRecorded' = fRecorded + 1
    /\ fPc' = "done"
    /\ UNCHANGED retry_attempts
    /\ UNCHANGED <<pipelineVars, extractVars>>

FetchNext ==
    \/ AttemptSucceeds
    \/ AttemptRetried
    \/ RetriesExhausted
    \/ AttemptRejected

FetchSpec == FetchInit /\ [][FetchNext]_vars

(***************************************************************************)
(* Properties.                                                             *)
(***************************************************************************)

Counters == {"total_urls", "invalid_urls", "failed_extractions", "valid_items"}

Finished == pc \in {"returned", "ended"} /\ interrupt \notin {"root", "collect"}

Dispatched == tasks # <<>>

TaskSet == 1..Len(tasks)

\* the sum of counter c over the results of the first n tasks
RECURSIVE SumOfShardCounter(_, _)
SumOfShardCounter(c, n) ==
    IF n = 0 THEN 0
    ELSE SumOfShardCounter(c, n - 1) + tasks[n].result.stats[c]

\* C1: when fetch_all_items returns, each global counter is the sum of that
\* counter over the results the shard tasks returned, whatever the order in
\* which the tasks completed and were merged.
C1_TotalsAreSums ==
    Finished =>
        /\ \A t \in TaskSet : tasks[t].st = "merged"
        /\ \A c \in Counters : statistics[c] = SumOfShardCounter(c, Len(tasks))

\* two shards with different results, the second merged before the first
C1_Witness ==
    /\ pc = "returned"
    /\ Len(tasks) = 2
    /\ tasks[1].doc # tasks[2].doc
    /\ tasks[1].result.items # <<>>
    /\ tasks[2].result.items # <<>>
    /\ all_items = tasks[2].result.items \o tasks[1].result.items
    /\ statistics.total_urls = 6

\* how often the tasks of shard URL u were started
RECURSIVE RunsOfUrl(_, _)
RunsOfUrl(u, n) ==
    IF n = 0 THEN 0
    ELSE RunsOfUrl(u, n - 1) + (IF tasks[n].url = u THEN tasks[n].runs ELSE 0)

\* C2 as stated: when the run has collected, every shard URL discovered from
\* the root sitemap was processed exactly once.
C2_EachShardUrlRunsOnce ==
    Finished => \A t \in TaskSet : RunsOfUrl(tasks[t].url, Len(tasks)) = 1

\* C2 amended: every entry of the list of shard URLs has one task of its own,
\* which is started once, never again after it has run, and has been merged
\* when fetch_all_items returns.
C2_EachListedShardRunsOnce ==
    /\ Len(tasks) = Len(shard_urls)
    /\ \A t \in TaskSet :
         /\ tasks[t].url = shard_urls[t]
         /\ tasks[t].runs = (IF tasks[t].st = "pending" THEN 0 ELSE 1)
    /\ Finished => \A t \in TaskSet : tasks[t].st = "merged"

\* two different shards, both processed, the run collected
C2_Witness ==
    /\ pc = "returned"
    /\ Len(tasks) = 2
    /\ tasks[1].url # tasks[2].url
    /\ \A t \in TaskSet : tasks[t].runs = 1 /\ tasks[t].st = "merged"

RunningTasks == {t \in TaskSet : Running(t)}

\* C3: at most max_workers shard tasks are executing (fetching, extracting
\* or sleeping) in any state, though all tasks are submitted up front.
C3_AtMostMaxWorkersRunning == Cardinality(RunningTasks) <= max_workers

\* the pool is full while a submitted task still waits
C3_Witness ==
    /\ Cardinality(RunningTasks) = max_workers
    /\ \E t \in TaskSet : tasks[t].st = "pending"

AddsUp(stats) ==
    stats.total_urls = stats.invalid_urls + stats.failed_extractions + stats.valid_items

\* C4: every result _process_shard returns, on every path, satisfies
\* total_urls = invalid_urls + failed_extractions + valid_items, and so do
\* the global statistics after every merge.
C4_CountersAddUp ==
    /\ \A t \in TaskSet :
         tasks[t].st \in {"returned", "merged"} => AddsUp(tasks[t].result.stats)
    /\ AddsUp(statistics)

\* C5: after deduplication the returned list has exactly one entry for every
\* id of the merged list and no other id, duplicate_items is the length of
\* the merged list minus the length of the returned list, and unique_items
\* is the length of the returned list.
C5_Deduplicated ==
    Finished /\ Dispatched =>
        /\ \A i \in 1..Len(all_items) :
             Cardinality({k \in 1..Len(returned) : returned[k].id = all_items[i].id}) = 1
        /\ \A k \in 1..Len(returned) :
             \E i \in 1..Len(all_items) : all_items[i].id = returned[k].id
        /\ statistics.duplicate_items = Len(all_items) - Len(returned)
        /\ statistics.unique_items = Len(returned)

\* two merged items share an id and differ in name; another id occurs too
C5_Witness ==
    /\ pc = "returned"
    /\ \E i, j \in 1..Len(all_items) :
         all_items[i].id = all_items[j].id /\ all_items[i].name # all_items[j].name
    /\ \E i, j \in 1..Len(all_items) : all_items[i].id # all_items[j].id
    /\ statistics.duplicate_items >= 1
    /\ Len(returned) = 2

\* C6: when the fetch of the root sitemap fails, fetch_all_items returns the
\* empty list, no shard task is dispatched and no output file is written.
C6_RootFailureWritesNothing ==
    root_fetch = "failed" =>
        /\ pc \in {"returned", "ended"}
        /\ returned = <<>>
        /\ tasks = <<>>
        /\ ~file_written

\* the run has ended after a failed root fetch
C6_Witness == root_fetch = "failed" /\ pc = "ended" /\ exit_status = "ok"

\* what the loop of _process_shard does with one <url> element
EntryKind(e) ==
    IF ~e.hasLoc THEN "noloc"
    ELSE IF ~is_valid_chrome_store_url(Urls[e.url]) THEN "invalid"
    ELSE IF extract_item_data(Urls[e.url], Responses[e.resp]).kind = "item" THEN "valid"
    ELSE "failed"

\* for each document of Docs, the number of its elements of each kind
CountKind ==
    [d \in 1..Len(Docs) |->
        [kind \in {"noloc", "invalid", "valid", "failed"} |->
            Cardinality({i \in 1..Len(Docs[d]) : EntryKind(Docs[d][i]) = kind})]]

CountsByKind(t) ==
    LET res == tasks[t].result
    IN  /\ res.stats.invalid_urls = CountKind[tasks[t].doc]["invalid"]
        /\ res.stats.failed_extractions = CountKind[tasks[t].doc]["failed"]
        /\ res.stats.valid_items = CountKind[tasks[t].doc]["valid"]
        /\ Len(res.items) = res.stats.valid_items

\* C7 as stated: for a document fetched and processed without an exception,
\* invalid, failedExtract and valid count the entries of each kind, the item
\* list has `valid` items and total is the number of entries.
C7_TotalCountsEveryEntry ==
    \A t \in TaskSet :
        tasks[t].path = "slept" =>
            /\ CountsByKind(t)
            /\ tasks[t].result.stats.total_urls = Len(Docs[tasks[t].doc])

\* C7 amended: total is the number of entries that have a <loc> with
\* non-empty text; an entry without one is counted nowhere.
C7_TotalCountsEntriesWithLoc ==
    \A t \in TaskSet :
        tasks[t].path = "slept" =>
            /\ CountsByKind(t)
            /\ tasks[t].result.stats.total_urls =
                 Len(Docs[tasks[t].doc]) - CountKind[tasks[t].doc]["noloc"]

\* five entries, two invalid, one failed extraction, two items
C7_Witness ==
    \E t \in TaskSet :
        /\ tasks[t].path = "slept"
        /\ Len(Docs[tasks[t].doc]) = 5
        /\ tasks[t].result.stats =
             [total_urls |-> 5, invalid_urls |-> 2, failed_extractions |-> 1,
              valid_items |-> 2]
        /\ Len(tasks[t].result.items) = 2

ValidRecord(item) ==
    /\ DOMAIN item = {"id", "name", "page", "file"}
    /\ Len(item.id) = ID_LENGTH
    /\ \A i \in 1..Len(item.id) : item.id[i] \in Alnum
    /\ item.name # <<>>
    /\ Len(item.name) <= NAME_LIMIT
    /\ item.name # Brand
    /\ is_valid_chrome_store_url(item.page)
    /\ validate_url(item.file)

\* the records extract_item_data yields on the inputs
ExtractedRecords ==
    {extract_item_data(Urls[u], Responses[r]).item :
        <<u, r>> \in {p \in (1..Len(Urls)) \X (1..Len(Responses)) :
                        extract_item_data(Urls[p[1]], Responses[p[2]]).kind = "item"}}

\* those of them that are valid, so that ValidRecord is evaluated once for
\* each record and not in every state
ValidRecords == {r \in ExtractedRecords : ValidRecord(r)}

AllValid(items) == \A i \in 1..Len(items) : items[i] \in ValidRecords

\* C8: every item in a list returned by _process_shard or fetch_all_items or
\* written by save_data has the four fields, an id of 32 alphanumeric
\* characters, a non-empty name of at most 200 characters that is not the
\* brand string, a catalog detail page URL and a file URL validate_url
\* accepts.
C8_NoPartialRecord ==
    /\ \A t \in TaskSet : AllValid(tasks[t].result.items)
    /\ AllValid(all_items)
    /\ AllValid(returned)
    /\ AllValid(file_data)

\* the file holds an item whose title was longer than the limit
C8_Witness ==
    /\ file_written
    /\ \E i \in 1..Len(file_data) : Len(file_data[i].name) = NAME_LIMIT - 1

\* the {slug} segment of a path /detail/{slug}/...
SlugOf(url) ==
    SubSeq(url.path, Len(DetailLit) + 1,
           Len(DetailLit) + RunLen(url.path, Len(DetailLit) + 1, {"/"}))

\* the slug percent-decoded, hyphens replaced by spaces
SlugName(url) ==
    LET decoded == unquote(SlugOf(url))
    IN  [i \in 1..Len(decoded) |-> IF decoded[i] = "-" THEN " " ELSE decoded[i]]

\* a valid catalog detail URL of shape /detail/{slug}/{id}
DetailShape(url) ==
    /\ is_valid_chrome_store_url(url)
    /\ StartsWith(url.path, DetailLit)
    /\ DetailIdSearch(UrlText(url)) # <<>>

\* the page gave no title, or one that does not end with the brand suffix
TitleUnavailable(response) ==
    \/ response.kind # "title"
    \/ ~EndsWith(Strip(response.title), chrome_store_suffix)

\* C9: when the title fetch, the title parse or the suffix match fails on a
\* valid detail URL, the name is derived from the slug and the record is
\* returned if it passes sanitization.
C9_FallsBackToSlug ==
    xPc = "done" /\ DetailShape(Urls[xUrl]) /\ TitleUnavailable(Responses[xResp]) =>
        LET url == Urls[xUrl]
            item_id == DetailIdSearch(UrlText(url))
            expected == sanitize_item_data(
                            [id |-> item_id, name |-> SomeName(SlugName(url)),
                             page |-> url, file |-> crx_download_url(item_id)])
        IN  /\ xOut.kind = expected.kind
            /\ expected.kind = "item" => xOut.item = expected.item

\* the path without a trailing slash
PathSansSlash(url) ==
    IF url.path # <<>> /\ url.path[Len(url.path)] = "/"
    THEN SubSeq(url.path, 1, Len(url.path) - 1)
    ELSE url.path

\* the last ID_LENGTH characters of the path
TrailingId(url) ==
    LET p == PathSansSlash(url)
    IN  IF Len(p) >= ID_LENGTH THEN SubSeq(p, Len(p) - ID_LENGTH + 1, Len(p)) ELSE <<>>

\* a catalog detail URL /detail/{slug}/{id} with an id of 32 alphanumeric
\* characters, possibly followed by a slash or a query string
WellFormedDetail(url) ==
    /\ is_valid_chrome_store_url(url)
    /\ LET p == PathSansSlash(url)
           slug == SubSeq(p, Len(DetailLit) + 1, Len(p) - ID_LENGTH - 1)
       IN  /\ StartsWith(p, DetailLit)
           /\ Len(p) >= Len(DetailLit) + ID_LENGTH + 2
           /\ p[Len(p) - ID_LENGTH] = "/"
           /\ \A i \in 1..ID_LENGTH : TrailingId(url)[i] \in Alnum
           /\ \A i \in 1..Len(slug) : slug[i] # "/"

NameAccepted(response) ==
    LET name == get_chrome_store_item_name(response)
    IN  name.ok /\ SanitizeName(name.val) \notin {<<>>, Brand}

C11_SanitizeIdempotent ==
    xPc = "again" => xAgain = xOut

\* the hosts the claim names
PrivateHost(h) ==
    \/ h \in { <<"l","o","c","a","l","h","o","s","t">>,
                <<"1","2","7",".","0",".","0",".","1">>, <<":",":","1">> }
    \/ StartsWith(h, <<"1","0",".">>)
    \/ StartsWith(h, <<"1","7","2",".">>)
    \/ StartsWith(h, <<"1","9","2",".","1","6","8",".">>)

\* C12: for a URL whose host is localhost, 127.0.0.1, ::1 or starts with 10.,
\* 172. or 192.168., validate_url and is_valid_chrome_store_url are false, the
\* loop of _process_shard counts the entry as invalid without extracting, and
\* extract_item_data itself yields nothing.
C12_PrivateHostsRejected ==
    PrivateHost(Urls[xUrl].hostname) =>
        /\ ~validate_url(Urls[xUrl])
        /\ ~is_valid_chrome_store_url(Urls[xUrl])
        /\ xPc = "done" => xOut.kind = "none"
        /\ xPc = "classified" =>
              /\ xEntry.items = <<>>
              /\ xEntry.stats = [ZeroStats EXCEPT !.total_urls = 1, !.invalid_urls = 1]

\* an entry with a 172. host and a page that has a good title was classified
C12_Witness ==
    /\ xPc = "classified"
    /\ StartsWith(Urls[xUrl].hostname, <<"1","7","2",".">>)
    /\ Responses[xResp] = Title(TitleFoo \o chrome_store_suffix)
    /\ xEntry.stats.invalid_urls = 1

(***************************************************************************)
(* Interrupts.                                                             *)
(***************************************************************************)

\* C13: after an interrupt at any point of the run the process has logged
\* the performance summary, exits with a non-zero status, and no output file
\* holding partial results exists.
C13_InterruptLeavesNoFile ==
    (pc = "ended" /\ interrupt # "none") =>
        /\ summary_logged
        /\ exit_status = "error"
        /\ ~(file_written /\ file_data # returned)

(***************************************************************************)
(* Who writes the shared accumulators.                                     *)
(***************************************************************************)

\* a step of a worker thread: a task is started or moves on in _process_shard
WorkerStep ==
    \E t \in 1..Len(tasks) :
        /\ tasks[t].st \in {"pending", "fetch", "loop", "sleep"}
        /\ tasks'[t].st # tasks[t].st

\* the orchestrator consumes the completed future of some task
MergeStep ==
    /\ pc = "collect"
    /\ \E t \in 1..Len(tasks) :
          tasks[t].st \in {"returned", "failed"} /\ tasks'[t].st = "merged"

\* the counters the shards contribute to
ShardCounters == Counters \cup {"failed_shards"}

Completed(t) == tasks[t].st \in {"returned", "merged"}

\* C15: a call of _process_shard that returned without an exception having
\* been raised in it has slept before returning, the call whose fetch failed
\* included.
C15_SleepsBeforeReturn ==
    \A t \in TaskSet :
        (Completed(t) /\ tasks[t].path # "raised") => tasks[t].path = "slept"

\* the tasks in which an exception was raised
RaisedTasks == {t \in TaskSet : tasks[t].path \in {"raised", "handler_raised"}}

\* C16: a shard in whose processing an exception was raised contributes no
\* item and is counted in failed_shards, and the run goes on to its end.
C16_ExceptionFailsShard ==
    (Finished /\ Dispatched) =>
        /\ \A t \in RaisedTasks : tasks[t].result.items = <<>>
        /\ statistics.failed_shards = Cardinality(RaisedTasks)

\* what the loop has accumulated when an exception is raised in the call for
\* document d: during the loop, or after it (in the sleep)
Accumulations(d) ==
    {RaisedAt(d, k) : k \in {i \in 1..Len(Docs[d]) : Docs[d][i].hasLoc}}
        \cup {ProcessedUpTo[d][Len(Docs[d])]}

\* C17: an exception raised in the try block of _process_shard (in the
\* fetch, the loop or the sleep) does not leave the call: the call returns,
\* with the items and counters accumulated when the exception was raised
\* (nothing, when it was raised in the fetch).
C17_ExceptionReturnsPartial ==
    \A t \in TaskSet :
        tasks[t].path = "raised" =>
            /\ Completed(t)
            /\ tasks[t].result \in Accumulations(tasks[t].doc)
            /\ Finished => tasks[t].st = "merged"

\* an exception in the loop after an item had been extracted: the item is
\* returned and merged
C17_Witness ==
    \E t \in TaskSet :
        /\ tasks[t].path = "raised"
        /\ tasks[t].st = "merged"
        /\ tasks[t].result.items # <<>>
        /\ tasks[t].result # ProcessedUpTo[tasks[t].doc][Len(Docs[tasks[t].doc])]
        /\ all_items = tasks[t].result.items

\* the tasks whose exception reached the orchestrator
FailedTasks == {t \in TaskSet : tasks[t].path = "handler_raised"}

\* C18: a shard whose fetch failed returns no item and all-zero counters, is
\* merged like any other result and is not counted in failed_shards; the
\* other shards are merged as usual.
C18_FetchFailureIsNotAFailedShard ==
    /\ \A t \in TaskSet :
          tasks[t].path = "fetch_failed" =>
              /\ Completed(t)
              /\ tasks[t].result = EmptyResult
    /\ (Finished /\ Dispatched) =>
          /\ \A t \in TaskSet : tasks[t].st = "merged"
          /\ statistics.failed_shards = Cardinality(FailedTasks)

\* the first shard could not be fetched, the second yielded items
C18_Witness ==
    /\ Finished
    /\ Len(tasks) = 2
    /\ tasks[1].path = "fetch_failed"
    /\ tasks[2].path = "slept"
    /\ returned = tasks[2].result.items
    /\ returned # <<>>
    /\ statistics.failed_shards = 0

\* C19: when the orchestrator consumes a task that raised, failed_shards
\* grows by exactly one and the merged list and the four URL counters stay
\* as they are.
C19_FailedTaskMergesNothing ==
    [][ \A t \in 1..Len(tasks) :
          (tasks[t].st = "failed" /\ tasks'[t].st = "merged") =>
              /\ statistics'.failed_shards = statistics.failed_shards + 1
              /\ all_items' = all_items
              /\ \A c \in Counters : statistics'[c] = statistics[c] ]_vars

\* a failed task was consumed after the items of another shard were merged
C19_Witness ==
    \E t, u \in TaskSet :
        /\ tasks[t].path = "handler_raised"
        /\ tasks[t].st = "merged"
        /\ tasks[u].st = "merged"
        /\ tasks[u].result.items # <<>>
        /\ all_items = tasks[u].result.items
        /\ statistics.failed_shards = 1
        /\ statistics.valid_items = Len(all_items)

(***************************************************************************)
(* Which record deduplication keeps.                                       *)
(***************************************************************************)

\* the positions of the merged list that hold id
Occurrences(id) == {j \in 1..Len(all_items) : all_items[j].id = id}

\* C20: for every id of the merged list, the returned list holds the record
\* of the id's last occurrence in the merged list, whole.
C20_LastOccurrenceKept ==
    (Finished /\ Dispatched) =>
        \A i \in 1..Len(returned) :
            /\ Occurrences(returned[i].id) # {}
            /\ returned[i] = all_items[Max(Occurrences(returned[i].id))]

\* an id occurs twice in the merged list with different records
C20_Witness ==
    /\ Finished
    /\ \E i, j \in 1..Len(all_items) :
          /\ i < j
          /\ all_items[i].id = all_items[j].id
          /\ all_items[i] # all_items[j]
          /\ Occurrences(all_items[j].id) = {i, j}
          /\ \E k \in 1..Len(returned) : returned[k] = all_items[j]

(***************************************************************************)
(* What the worker threads share.                                          *)
(***************************************************************************)

\* the step is one of the worker running task t
StepOfTask(t) ==
    /\ tasks[t].st \in {"pending", "fetch", "loop", "sleep"}
    /\ tasks'[t].st # tasks[t].st

\* C21 as stated: a step of a worker thread changes nothing but the state of
\* its own call, whose result reaches the others through the merge only.
C21_WorkersShareNothing ==
    [][ \A t \in 1..Len(tasks) :
          StepOfTask(t) =>
              /\ \A u \in 1..Len(tasks) : u # t => tasks'[u] = tasks[u]
              /\ UNCHANGED <<statistics, all_items, returned, file_written,
                             file_data, request_times>> ]_vars

\* C21: a step of a worker thread changes the state of its own call and
\* nothing else, except that a fetch appends one duration to the request
\* times of the performance monitor, which all workers share.
C21_WorkersShareOnlyRequestTimes ==
    [][ \A t \in 1..Len(tasks) :
          StepOfTask(t) =>
              /\ \A u \in 1..Len(tasks) : u # t => tasks'[u] = tasks[u]
              /\ UNCHANGED <<statistics, all_items, returned, file_written, file_data>>
              /\ request_times' \in {request_times, request_times + 1}
              /\ request_times' # request_times => tasks[t].st = "fetch" ]_vars

\* two workers run at the same time and both have recorded a request
C21_Witness ==
    \E t, u \in TaskSet :
        /\ t # u
        /\ tasks[t].st \in {"loop", "sleep"}
        /\ tasks[u].st \in {"loop", "sleep"}
        /\ request_times = 3

\* the calls of _fetch_sitemap that returned in the first n tasks
RECURSIVE ShardFetches(_)
ShardFetches(n) ==
    IF n = 0 THEN 0 ELSE ShardFetches(n - 1) + tasks[n].fetches

\* C23: each call of _fetch_sitemap that returned has recorded one request
\* duration: none before the root fetch, one after it, and one more for
\* every shard fetch that returned, with a document or with None.
C23_OneDurationPerFetch ==
    /\ root_fetch = "pending" => request_times = 0
    /\ root_fetch # "pending" => request_times = 1 + ShardFetches(Len(tasks))

\* both outcomes of a shard fetch have been recorded
C23_Witness ==
    /\ Finished
    /\ Len(tasks) = 2
    /\ tasks[1].path = "fetch_failed"
    /\ tasks[2].path = "slept"
    /\ tasks[2].result.items # <<>>
    /\ request_times = 3

(***************************************************************************)
(* A root document without shards; the counters; the output file; the      *)
(* order of the returned list.                                             *)
(***************************************************************************)

\* C25: when the root sitemap was fetched and names no shard, the collection
\* returns the empty list, no task was submitted, every statistic is still
\* zero and no output file is written.
C25_NoShardsNothingDone ==
    (root_fetch = "ok" /\ shard_urls = <<>>) =>
        /\ pc \in {"returned", "ended"}
        /\ returned = <<>>
        /\ tasks = <<>>
        /\ statistics = InitStatistics
        /\ all_items = <<>>
        /\ ~file_written

\* the run has ended after a root document that named no shard
C25_Witness ==
    /\ root_fetch = "ok"
    /\ shard_urls = <<>>
    /\ pc = "ended"
    /\ exit_status = "ok"
    /\ request_times = 1

\* C28: valid_items is the length of the merged list at every moment, so
\* after every merge; when the collection has returned, unique_items +
\* duplicate_items = valid_items and failed_shards <= total_shards.
C28_CountersMatchLists ==
    /\ statistics.valid_items = Len(all_items)
    /\ Finished =>
          /\ statistics.unique_items + statistics.duplicate_items
                = statistics.valid_items
          /\ statistics.unique_items = Len(returned)
          /\ statistics.failed_shards <= statistics.total_shards

\* a run that removed a duplicate
C28_Witness ==
    /\ Finished
    /\ statistics.duplicate_items = 1
    /\ statistics.unique_items = 2
    /\ statistics.valid_items = 3
    /\ Len(all_items) = 3

FirstOccurrence(id) == Min(Occurrences(id))

\* C30: the returned list holds every id of the merged list once, in the
\* order of the ids' first occurrences, each with the record of its last
\* occurrence; a merged list without duplicates is returned as it is.
C30_FirstPositionLastRecord ==
    (Finished /\ Dispatched) =>
        /\ \A j \in 1..Len(all_items) :
              \E i \in 1..Len(returned) : returned[i].id = all_items[j].id
        /\ \A i \in 1..Len(returned) : Occurrences(returned[i].id) # {}
        /\ \A i, k \in 1..Len(returned) :
              i < k => FirstOccurrence(returned[i].id) < FirstOccurrence(returned[k].id)
        /\ \A i \in 1..Len(returned) :
              returned[i] = all_items[Max(Occurrences(returned[i].id))]
        /\ (\A i, j \in 1..Len(all_items) : all_items[i].id = all_items[j].id => i = j)
              => returned = all_items

\* the merged list is A, B, A': the returned list is A', B
C30_Witness ==
    /\ Finished
    /\ Len(all_items) = 3
    /\ all_items[1].id = all_items[3].id
    /\ all_items[1] # all_items[3]
    /\ all_items[2].id # all_items[1].id
    /\ returned = <<all_items[3], all_items[2]>>

(***************************************************************************)
(* What one <url> element adds to the counters.                            *)
(***************************************************************************)

\* one element was counted, in exactly one of the three classes
CountedOnce(result) ==
    /\ result.stats.total_urls = 1
    /\ result.stats.invalid_urls + result.stats.failed_extractions
          + result.stats.valid_items = 1
    /\ Len(result.items) = result.stats.valid_items

C27_NoStartAfterInterrupt ==
    [][ interrupt = "collect" =>
          \A t \in 1..Len(tasks) :
              tasks[t].st = "pending" => tasks'[t].st = "pending" ]_vars

(***************************************************************************)
(* Retries of one sitemap request.                                         *)
(***************************************************************************)

\* the attempts before the last one
Repeated == SubSeq(fTrace, 1, Len(fTrace) - 1)

\* C22: one call of _fetch_sitemap makes at most retry_attempts + 1
\* attempts, each attempt but the last having met a retryable status or no
\* response; a call whose every attempt met that returns None after
\* retry_attempts retries; an error status that is not retryable ends the
\* call with None; status 200 with an XML body ends it with the tree; the
\* call never raises, and it records one duration.
C22_RetriesBounded ==
    /\ Len(fTrace) <= retry_attempts + 1
    /\ fPc = "attempt" => \A i \in 1..Len(fTrace) : Retryable(fTrace[i])
    /\ fPc = "done" =>
          LET last == fTrace[Len(fTrace)]
          IN  /\ \A i \in 1..Len(Repeated) : Retryable(Repeated[i])
              /\ fOut \in {"tree", "none"}
              /\ Retryable(last) => (fOut = "none" /\ Len(fTrace) = retry_attempts + 1)
              /\ (last.status # 200 /\ ~Retryable(last)) => fOut = "none"
              /\ (last.status = 200 /\ last.xml) => fOut = "tree"
              /\ fRecorded = 1

\* the first attempt and both retries met a retryable status: None
C22_Witness ==
    /\ fPc = "done"
    /\ retry_attempts = MaxRetryAttempts
    /\ Len(fTrace) = MaxRetryAttempts + 1
    /\ \A i \in 1..Len(fTrace) : fTrace[i].status \in RETRY_STATUS_FORCELIST
    /\ fOut = "none"

(***************************************************************************)
(* Termination of the collection.                                          *)
(***************************************************************************)

\* C26: fetch_all_items returns in the end, every submitted task having
\* completed and been merged.
C26_EventuallyReturns ==
    <>(/\ pc \in {"returned", "ended"}
       /\ \A t \in TaskSet : tasks[t].st = "merged")

\* the collection returned after two shards were processed by one worker
C26_Witness ==
    /\ pc = "returned"
    /\ max_workers = 1
    /\ Len(tasks) = 2
    /\ \A t \in TaskSet : tasks[t].st = "merged" /\ tasks[t].runs = 1


====
